---- MODULE Spec2Model ----
(***************************************************************************)
(* Model of src/query_embeddings/parsing.rs (granne): the query-file       *)
(* tokenizer parse_file, the multi-part collector                          *)
(* parse_queries_in_directory_or_file and the chunked vectorizer           *)
(* compute_query_vectors_and_save_to_disk.                                 *)
(*                                                                         *)
(* Text is a sequence of one-character strings.  A query-log line is the   *)
(* raw text of one line of the stream (a JSON string literal when valid).  *)
(***************************************************************************)
EXTENDS Integers, Sequences, FiniteSets, TLC

\* ------------------------------------------------------------------------
\* Bounds of the model
\* ------------------------------------------------------------------------

\* longest query text of which every instance is drawn as an input line
MaxLineLen == 2

\* most lines read from one stream by the stepwise tokenizer
MaxLines == 2

\* every query count up to this one is vectorized
MaxSmallCount == 2

\* the largest query count that is vectorized
MaxCount == 201

\* most parts in the directory that is collected
MaxParts == 2

\* lines of a vocabulary file
MaxWords == 3

\* ------------------------------------------------------------------------
\* Characters and text
\* ------------------------------------------------------------------------

Quote == "\""

Backslash == "\\"

Tab == "\t"

\* characters of the exhaustively drawn query texts
TextChars == {":", " ", "a", "b"}

\* the backspace character, written as a symbol
Backspace == "<BS>"

\* char::is_whitespace, on the characters of the model
IsWhitespace(c) == c \in {" ", Tab, "\n", "\r", "\f"}

\* the whitespace JSON allows around a value
IsJsonSpace(c) == c \in {" ", Tab, "\n", "\r"}

\* the failed outcome of a decoding (no text has this shape)
Error == <<"Error">>

\* the failed outcome of decoding one escape
NoChar == "NoChar"

\* all texts over the alphabet S of length at most n
TextsUpTo(S, n) == UNION {[1..k -> S] : k \in 0..n}

Max(S) == CHOOSE x \in S : \A y \in S : y <= x

Min(S) == CHOOSE x \in S : \A y \in S : x <= y

\* ------------------------------------------------------------------------
\* serde_json::from_str::<String>  (parsing.rs:142, parsing.rs:23)
\* ------------------------------------------------------------------------

\* the character a JSON escape \c stands for; NoChar when \c is no escape
\* (the escape \uXXXX is not used by the lines of the model)
Unescape(c) ==
    CASE c = Quote -> Quote
      [] c = Backslash -> Backslash
      [] c = "/" -> "/"
      [] c = "b" -> Backspace
      [] c = "f" -> "\f"
      [] c = "n" -> "\n"
      [] c = "r" -> "\r"
      [] c = "t" -> Tab
      [] OTHER -> NoChar

\* control characters must be escaped inside a JSON string
IsControl(c) == c \in {Tab, "\n", "\r", "\f", Backspace}

RECURSIVE JsonBody(_, _)
\* decode the characters after the opening quote; acc is the text so far.
\* The closing quote must be followed by nothing but whitespace.
JsonBody(s, acc) ==
    IF s = <<>> THEN Error
    ELSE IF Head(s) = Quote
         THEN IF \A i \in 2..Len(s) : IsJsonSpace(s[i]) THEN acc ELSE Error
    ELSE IF Head(s) = Backslash
         THEN IF Len(s) < 2 \/ Unescape(s[2]) = NoChar THEN Error
              ELSE JsonBody(SubSeq(s, 3, Len(s)), Append(acc, Unescape(s[2])))
    ELSE IF IsControl(Head(s)) THEN Error
    ELSE JsonBody(Tail(s), Append(acc, Head(s)))

RECURSIVE JsonDecode(_)
\* serde_json::from_str::<String>(line): the decoded text, or Error
JsonDecode(s) ==
    IF s = <<>> THEN Error
    ELSE IF IsJsonSpace(Head(s)) THEN JsonDecode(Tail(s))
    ELSE IF Head(s) = Quote THEN JsonBody(Tail(s), <<>>)
    ELSE Error

RECURSIVE JsonEscape(_)
\* the body of the JSON string literal that encodes the text s
JsonEscape(s) ==
    IF s = <<>> THEN <<>>
    ELSE (CASE Head(s) = Quote -> <<Backslash, Quote>>
            [] Head(s) = Backslash -> <<Backslash, Backslash>>
            [] Head(s) = Tab -> <<Backslash, "t">>
            [] Head(s) = Backspace -> <<Backslash, "b">>
            [] Head(s) = "\f" -> <<Backslash, "f">>
            [] Head(s) = "\n" -> <<Backslash, "n">>
            [] Head(s) = "\r" -> <<Backslash, "r">>
            [] OTHER -> <<Head(s)>>) \o JsonEscape(Tail(s))

\* a line of a query log as its writer produces it
JsonEncode(s) == <<Quote>> \o JsonEscape(s) \o <<Quote>>

\* ------------------------------------------------------------------------
\* str::split(':').last()  and  str::split_whitespace()  (parsing.rs:143-145)
\* ------------------------------------------------------------------------

RECURSIVE Split(_, _)
\* str::split(c): the segments between occurrences of c (never empty:
\* a text without c is its own single segment)
Split(s, c) ==
    LET at == {i \in 1..Len(s) : s[i] = c}
    IN  IF at = {} THEN <<s>>
        ELSE <<SubSeq(s, 1, Min(at) - 1)>> \o Split(SubSeq(s, Min(at) + 1, Len(s)), c)

\* the field before the first ':' (what Iterator::next() would give)
FirstSegment(segs) == segs[1]

\* Iterator::last().unwrap() on the segments
LastSegment(segs) == segs[Len(segs)]

RECURSIVE SplitWhitespace(_)
\* str::split_whitespace(): the maximal runs of non-whitespace characters
SplitWhitespace(s) ==
    IF s = <<>> THEN <<>>
    ELSE IF IsWhitespace(Head(s)) THEN SplitWhitespace(Tail(s))
    ELSE LET stops == {i \in 1..Len(s) : IsWhitespace(s[i])}
             n == IF stops = {} THEN Len(s) ELSE Min(stops) - 1
         IN  <<SubSeq(s, 1, n)>> \o SplitWhitespace(SubSeq(s, n + 1, Len(s)))

\* ------------------------------------------------------------------------
\* The vocabulary and the body of parse_file's loop  (parsing.rs:139-152)
\* ------------------------------------------------------------------------

\* the text of the example "q1:region:red car"
ExampleText ==
    <<"q", "1", ":", "r", "e", "g", "i", "o", "n", ":", "r", "e", "d", " ", "c", "a", "r">>

\* the vocabulary {"red": 0, "car": 1} of the example
ExampleVocab == (<<"r", "e", "d">> :> 0) @@ (<<"c", "a", "r">> :> 1)

\* the word-to-id tables the tokenizer is run with (FnvHashMap<String, usize>)
Vocabularies ==
    { [w \in {} |-> 0],
      (<<"a">> :> 0) @@ (<<"b">> :> 1),
      (<<"b">> :> 0) @@ (<<"a", "b">> :> 2),
      ExampleVocab }

\* a term is pushed with a placeholder id when it is unknown
PushIdOrPlaceholder(query_data, word, word_ids) ==
    IF word \in DOMAIN word_ids THEN Append(query_data, word_ids[word])
    ELSE Append(query_data, 0)

\* if let Some(&id) = word_ids.get(word) { query_data.push(id); }
PushId(query_data, word, word_ids) ==
    IF word \in DOMAIN word_ids THEN Append(query_data, word_ids[word])
    ELSE query_data

RECURSIVE QueryData(_, _, _)
\* for word in qs.split_whitespace() { ... }: the loop over the terms
QueryData(words, word_ids, query_data) ==
    IF words = <<>> THEN query_data
    ELSE QueryData(Tail(words), word_ids, PushId(query_data, Head(words), word_ids))

\* the text that is tokenized: qs.split(':').last().unwrap()
QueryText(qs) == LastSegment(Split(qs, ":"))

\* the token-id sequence of one valid line (the body of the for loop)
ParseLine(line, word_ids) ==
    QueryData(SplitWhitespace(QueryText(JsonDecode(line))), word_ids, <<>>)

\* serde_json::from_str(..).unwrap() panics on these lines
Malformed(line) == JsonDecode(line) = Error

\* QueryVec::push: the sequence becomes the last element of the dataset
Push(qv, query_data) == Append(qv, query_data)

\* a line without a known term leaves no sequence in the dataset
LoopBodySkipEmpty(qv, line, word_ids) ==
    IF ParseLine(line, word_ids) = <<>> THEN qv ELSE Push(qv, ParseLine(line, word_ids))

\* one iteration of the loop over the lines: tokenize, then queries.push
LoopBody(qv, line, word_ids) == Push(qv, ParseLine(line, word_ids))

\* ------------------------------------------------------------------------
\* Input lines
\* ------------------------------------------------------------------------

\* longer query texts: the example, prefixes with one and two ':', an
\* unknown term before a known one, tabs and repeated blanks between terms
LongTexts ==
    { ExampleText,
      <<"a", " ", "b">>, <<"b", " ", "a">>, <<"a", "b", " ", "b">>,
      <<"a", ":", "b", " ", "a">>, <<"a", ":", "b", ":", "a", " ", "b">>,
      <<"b", " ", "a", ":">>, <<"a", Tab, "b">>, <<" ", "a", " ", " ", "b", Tab>>,
      <<"x", " ", "a">>, <<"x", " ", "y">>, <<Quote, "a", Backslash, ":", "b">>,
      <<"a", "\f", "b", Backspace, " ", "b">> }

\* lines that are JSON string literals
ValidLines == {JsonEncode(t) : t \in TextsUpTo(TextChars, MaxLineLen) \cup LongTexts}

\* lines that are not: empty, bare text, unterminated, bad escape, raw tab,
\* text after the closing quote, an escaped closing quote
MalformedLines ==
    { <<>>, <<"a">>, <<Quote, "a">>, <<Quote, Backslash, "a", Quote>>,
      <<Quote, Tab, Quote>>, <<Quote, "a", Quote, "b">>, <<Quote, "a", Backslash, Quote>> }

\* ------------------------------------------------------------------------
\* State
\* ------------------------------------------------------------------------

VARIABLES
    pf_pc,        \* parse_file: "reading", "returned" or "panicked"
    pf_word_ids,  \* parse_file: the vocabulary argument
    pf_qs,        \* parse_file: the line read last (raw)
    pf_lines,     \* parse_file: number of lines taken from the stream
    pf_queries    \* parse_file: the local `queries`

pfVars == <<pf_pc, pf_word_ids, pf_qs, pf_lines, pf_queries>>

VARIABLES
    cv_pc,             \* vectorizer: "off", "embeddings", "queries", "create",
                       \*   "loop", "par", "write", "progress", "done", "aborted"
    cv_disk,           \* vectorizer: the files at word_embeddings_path and queries_path
    cv_output,         \* vectorizer: the file at output_path, "untouched" or "created"
    cv_queries,        \* vectorizer: the loaded dataset `queries` (read-only)
    cv_word_embeddings,\* vectorizer: the mapped word-embedding table (read-only)
    cv_show_progress,  \* vectorizer: the argument show_progress
    cv_i,              \* vectorizer: the loop variable i of `for i in 0..num_chunks`
    cv_chunk,          \* vectorizer: the Vec `chunk` of query indices
    cv_task,           \* vectorizer: per position of chunk, "idle", "running", "done"
    cv_slots,          \* vectorizer: the buffer collect() fills, one slot per position
    cv_query_vectors,  \* vectorizer: the Vec `query_vectors` of the iteration
    cv_file,           \* vectorizer: the vectors written to the output stream
    cv_progress        \* vectorizer: the count shown by the progress bar

cvVars == <<cv_pc, cv_disk, cv_output, cv_queries, cv_word_embeddings,
            cv_show_progress, cv_i, cv_chunk,
            cv_task, cv_slots, cv_query_vectors, cv_file, cv_progress>>

VARIABLES
    co_pc,           \* build: "off", "vocab", "list", "par", "parsed", "merge",
                     \*        "returned", "write", "done", "aborted"
    co_word_file,    \* build: the vocabulary file at words_path (read-only)
    co_word_ids,     \* build: the mapping word_ids
    co_is_dir,       \* collector: path.is_dir()
    co_listing,      \* collector: the paths in the order read_dir yields them
    co_disk,         \* collector: what is stored under each path (read-only)
    co_show_progress,\* collector: the argument show_progress
    co_parts,        \* collector: the Vec `parts`
    co_task,         \* collector: per position of parts, the state of its task
    co_slots,        \* collector: the buffer collect() fills, one slot per part
    co_lock,         \* collector: the tasks that hold the Mutex of the progress bar
    co_read,         \* collector: per task, the count that inc() has read
    co_progress_bar, \* collector: the count of the first progress bar
    co_query_parts,  \* collector: the Vec `query_parts`
    co_collect_bar,  \* collector: the count of the second progress bar
    co_queries,      \* collector: the QueryVec `queries` being merged
    co_returned,     \* build: what the collector returned (a result slot)
    co_output        \* build: the file at output_path

coVars == <<co_pc, co_word_file, co_word_ids, co_is_dir, co_listing, co_disk,
            co_show_progress, co_parts, co_task, co_slots, co_lock, co_read, co_progress_bar,
            co_query_parts, co_collect_bar, co_queries, co_returned, co_output>>

vars == <<pfVars, cvVars, coVars>>

\* the output path has not been touched
Untouched == [state |-> "untouched", content |-> <<>>]

\* parse_queries_and_save_to_disk is not running
CoOff ==
    /\ co_pc = "off"
    /\ co_word_file = <<>>
    /\ co_word_ids = <<>>
    /\ co_is_dir = FALSE
    /\ co_listing = <<>>
    /\ co_disk = <<>>
    /\ co_show_progress = FALSE
    /\ co_parts = <<>>
    /\ co_task = <<>>
    /\ co_slots = <<>>
    /\ co_lock = {}
    /\ co_read = <<>>
    /\ co_progress_bar = 0
    /\ co_query_parts = <<>>
    /\ co_collect_bar = 0
    /\ co_queries = <<>>
    /\ co_returned = <<>>
    /\ co_output = Untouched

\* parse_file is not running
PfOff ==
    /\ pf_pc = "off"
    /\ pf_word_ids = [w \in {} |-> 0]
    /\ pf_qs = <<>>
    /\ pf_lines = 0
    /\ pf_queries = <<>>

\* the vectorizer is not running
CvOff ==
    /\ cv_pc = "off"
    /\ cv_disk = <<>>
    /\ cv_output = "untouched"
    /\ cv_queries = <<>>
    /\ cv_word_embeddings = <<>>
    /\ cv_show_progress = FALSE
    /\ cv_i = 0
    /\ cv_chunk = <<>>
    /\ cv_task = <<>>
    /\ cv_slots = <<>>
    /\ cv_query_vectors = <<>>
    /\ cv_file = <<>>
    /\ cv_progress = 0

\* ------------------------------------------------------------------------
\* parse_file, one step per line of the stream  (parsing.rs:133-155)
\* ------------------------------------------------------------------------

\* let mut queries = QueryVec::new(), called with any vocabulary
PfInit ==
    /\ CvOff
    /\ CoOff
    /\ pf_pc = "reading"
    /\ pf_word_ids \in Vocabularies
    /\ pf_qs = <<>>
    /\ pf_lines = 0
    /\ pf_queries = <<>>

\* one iteration of `for qs in query_file.lines()` on a valid line
PfParseLine(line) ==
    /\ pf_pc = "reading"
    /\ pf_lines < MaxLines
    /\ ~Malformed(line)
    /\ pf_qs' = line
    /\ pf_lines' = pf_lines + 1
    /\ pf_queries' = LoopBody(pf_queries, line, pf_word_ids)
    /\ UNCHANGED <<pf_pc, pf_word_ids>>
    /\ UNCHANGED <<cvVars, coVars>>

\* the line is no JSON string: from_str(..).unwrap() panics
PfMalformedLine(line) ==
    /\ pf_pc = "reading"
    /\ pf_lines < MaxLines
    /\ Malformed(line)
    /\ pf_qs' = line
    /\ pf_lines' = pf_lines + 1
    /\ pf_pc' = "panicked"
    /\ UNCHANGED <<pf_word_ids, pf_queries>>
    /\ UNCHANGED <<cvVars, coVars>>

\* the stream fails (I/O error, invalid UTF-8): qs.unwrap() panics
PfReadError ==
    /\ pf_pc = "reading"
    /\ pf_pc' = "panicked"
    /\ UNCHANGED <<pf_word_ids, pf_qs, pf_lines, pf_queries>>
    /\ UNCHANGED <<cvVars, coVars>>

\* end of the stream: `queries` is returned
PfReturn ==
    /\ pf_pc = "reading"
    /\ pf_pc' = "returned"
    /\ UNCHANGED <<pf_word_ids, pf_qs, pf_lines, pf_queries>>
    /\ UNCHANGED <<cvVars, coVars>>

PfNext ==
    \/ \E line \in ValidLines : PfParseLine(line)
    \/ \E line \in MalformedLines : PfMalformedLine(line)
    \/ PfReadError
    \/ PfReturn

\* ------------------------------------------------------------------------
\* compute_query_vectors_and_save_to_disk  (parsing.rs:36-68)
\* ------------------------------------------------------------------------

\* let num_chunks = 100
num_chunks == 100

\* a result slot of collect(): empty, or holding one value
NoResult == <<>>

SomeResult(v) == <<v>>

\* the token-id sequence stored at index i of the datasets that are loaded
DatasetQuery(i) == <<i % 3, i % 7>>

\* the datasets of the model: one per query count
Dataset(n) == [k \in 1..n |-> DatasetQuery(k - 1)]

\* the word-embedding table that is mapped: the vector of every token id
EmbeddingTable == [t \in 0..6 |-> <<t + 1, t * t>>]

RECURSIVE SumVectors(_, _)
\* aggregate the word vectors of a token-id sequence
SumVectors(q, table) ==
    IF q = <<>> THEN <<0, 0>>
    ELSE LET r == SumVectors(Tail(q), table)
         IN  <<table[Head(q)][1] + r[1], table[Head(q)][2] + r[2]>>

\* queries.at(i): the embedding of query i (0-based) of the dataset
At(qs, table, i) == SumVectors(qs[i + 1], table)

\* chunk size rounded down
ChunkSizeFloor(n) == n \div num_chunks

\* let chunk_size = (queries.len() + num_chunks - 1) / num_chunks
ChunkSize(n) == (n + num_chunks - 1) \div num_chunks

\* the first index of chunk i
ChunkStart(i, chunk_size) == i * chunk_size

\* every chunk runs to the end of the dataset
ChunkEndAll(i, chunk_size, n) == n

\* cmp::min((i+1)*chunk_size, queries.len()): one past the last index of chunk i
ChunkEnd(i, chunk_size, n) ==
    IF (i + 1) * chunk_size < n THEN (i + 1) * chunk_size ELSE n

\* the range includes its end
RangeVecInclusive(start, end) == [k \in 1..(end - start + 1) |-> start + k - 1]

\* (start..end).collect::<Vec<_>>(): empty when start >= end
RangeVec(start, end) ==
    IF start >= end THEN <<>> ELSE [k \in 1..(end - start) |-> start + k - 1]

\* the result of the task that finishes goes to the first free slot
PlaceResultFirstFree(slots, k, v) ==
    [slots EXCEPT ![Min({p \in DOMAIN slots : slots[p] = NoResult})] = SomeResult(v)]

\* the indexed collect: the result of the task at position k goes to slot k
PlaceResult(slots, k, v) == [slots EXCEPT ![k] = SomeResult(v)]

\* the Vec that collect() returns once every slot is filled
Collected(slots) == [k \in 1..Len(slots) |-> slots[k][1]]

\* file_io::write: the vectors are appended to the stream in their order
WriteVectors(file, vectors) == file \o vectors

\* query counts of the model: the smallest, and those around the multiples
\* of num_chunks, where chunk_size changes
QueryCounts ==
    (0..MaxSmallCount)
      \cup {num_chunks - 1, num_chunks, num_chunks + 1, num_chunks + num_chunks \div 2}
      \cup ((MaxCount - 2)..MaxCount)

\* a file that can be opened and mapped
Mappable(content) == [kind |-> "file", content |-> content]

\* a path that File::open rejects
NoFile == [kind |-> "noaccess", content |-> <<>>]

\* a file that can be opened but not mapped
Unmappable == [kind |-> "nomap", content |-> <<>>]

\* what can be found at word_embeddings_path
EmbeddingFiles == {Mappable(EmbeddingTable), NoFile, Unmappable}

\* what can be found at queries_path
DatasetFiles == {Mappable(Dataset(n)) : n \in QueryCounts} \cup {NoFile, Unmappable}

\* File::open(..) returns Err, or Mmap::map(..) returns Err
MapFails(file) == file.kind # "file"

\* the call of compute_query_vectors_and_save_to_disk: nothing has been
\* opened yet
CvInit ==
    /\ PfOff
    /\ CoOff
    /\ cv_pc = "embeddings"
    /\ cv_disk \in [word_embeddings : EmbeddingFiles, queries : DatasetFiles]
    /\ cv_output = "untouched"
    /\ cv_queries = <<>>
    /\ cv_word_embeddings = <<>>
    /\ cv_show_progress \in BOOLEAN
    /\ cv_i = 0
    /\ cv_chunk = <<>>
    /\ cv_task = <<>>
    /\ cv_slots = <<>>
    /\ cv_query_vectors = <<>>
    /\ cv_file = <<>>
    /\ cv_progress = 0

\* the loop-side variables of the vectorizer stay as they are
CvLoopUnchanged ==
    UNCHANGED <<cv_i, cv_chunk, cv_task, cv_slots, cv_query_vectors, cv_file,
                cv_progress>>

\* lines 37-38: the word-embedding file is opened and mapped
CvMapEmbeddings ==
    /\ cv_pc = "embeddings"
    /\ ~MapFails(cv_disk.word_embeddings)
    /\ cv_word_embeddings' = cv_disk.word_embeddings.content
    /\ cv_pc' = "queries"
    /\ UNCHANGED <<cv_disk, cv_output, cv_queries, cv_show_progress>>
    /\ CvLoopUnchanged
    /\ UNCHANGED <<pfVars, coVars>>

\* lines 37-38: expect or unwrap panics
CvMapEmbeddingsPanic ==
    /\ cv_pc = "embeddings"
    /\ MapFails(cv_disk.word_embeddings)
    /\ cv_pc' = "aborted"
    /\ UNCHANGED <<cv_disk, cv_output, cv_queries, cv_word_embeddings, cv_show_progress>>
    /\ CvLoopUnchanged
    /\ UNCHANGED <<pfVars, coVars>>

\* lines 40-43: the dataset file is opened and mapped, the dataset loaded
CvMapQueries ==
    /\ cv_pc = "queries"
    /\ ~MapFails(cv_disk.queries)
    /\ cv_queries' = cv_disk.queries.content
    /\ cv_pc' = "create"
    /\ UNCHANGED <<cv_disk, cv_output, cv_word_embeddings, cv_show_progress>>
    /\ CvLoopUnchanged
    /\ UNCHANGED <<pfVars, coVars>>

\* lines 40-41: expect or unwrap panics
CvMapQueriesPanic ==
    /\ cv_pc = "queries"
    /\ MapFails(cv_disk.queries)
    /\ cv_pc' = "aborted"
    /\ UNCHANGED <<cv_disk, cv_output, cv_queries, cv_word_embeddings, cv_show_progress>>
    /\ CvLoopUnchanged
    /\ UNCHANGED <<pfVars, coVars>>

\* the output file is made before the inputs are opened
CvCreateFirst ==
    /\ cv_pc = "embeddings"
    /\ cv_output = "untouched"
    /\ cv_output' = "created"
    /\ UNCHANGED <<cv_pc, cv_disk, cv_queries, cv_word_embeddings, cv_show_progress>>
    /\ CvLoopUnchanged
    /\ UNCHANGED <<pfVars, coVars>>

\* lines 45-52: File::create makes or truncates the output file, the
\* progress bar is made
CvCreate ==
    /\ cv_pc = "create"
    /\ cv_output' = "created"
    /\ cv_pc' = "loop"
    /\ UNCHANGED <<cv_disk, cv_queries, cv_word_embeddings, cv_show_progress>>
    /\ CvLoopUnchanged
    /\ UNCHANGED <<pfVars, coVars>>

\* line 45: File::create fails and expect panics
CvCreatePanic ==
    /\ cv_pc = "create"
    /\ cv_pc' = "aborted"
    /\ UNCHANGED <<cv_disk, cv_output, cv_queries, cv_word_embeddings, cv_show_progress>>
    /\ CvLoopUnchanged
    /\ UNCHANGED <<pfVars, coVars>>

\* line 58: build the index Vec of chunk i and hand it to par_iter
CvChunk ==
    /\ cv_pc = "loop"
    /\ cv_i < num_chunks
    /\ LET n == Len(cv_queries)
           chunk == RangeVec(ChunkStart(cv_i, ChunkSize(n)), ChunkEnd(cv_i, ChunkSize(n), n))
       IN  /\ cv_chunk' = chunk
           /\ cv_task' = [k \in 1..Len(chunk) |-> "idle"]
           /\ cv_slots' = [k \in 1..Len(chunk) |-> NoResult]
    /\ cv_pc' = "par"
    /\ UNCHANGED <<cv_disk, cv_output, cv_queries, cv_word_embeddings, cv_show_progress, cv_i,
                   cv_query_vectors, cv_file, cv_progress>>
    /\ UNCHANGED <<pfVars, coVars>>

\* a worker takes the task of position k of the chunk
CvTaskStart(k) ==
    /\ cv_pc = "par"
    /\ cv_task[k] = "idle"
    /\ cv_task' = [cv_task EXCEPT ![k] = "running"]
    /\ UNCHANGED <<cv_pc, cv_disk, cv_output, cv_queries, cv_word_embeddings,
                   cv_show_progress, cv_i,
                   cv_chunk, cv_slots, cv_query_vectors, cv_file, cv_progress>>
    /\ UNCHANGED <<pfVars, coVars>>

\* line 61: the task has computed queries.at(i) and hands it to collect
CvTaskFinish(k) ==
    /\ cv_pc = "par"
    /\ cv_task[k] = "running"
    /\ cv_task' = [cv_task EXCEPT ![k] = "done"]
    /\ cv_slots' = PlaceResult(cv_slots, k, At(cv_queries, cv_word_embeddings, cv_chunk[k]))
    /\ UNCHANGED <<cv_pc, cv_disk, cv_output, cv_queries, cv_word_embeddings,
                   cv_show_progress, cv_i,
                   cv_chunk, cv_query_vectors, cv_file, cv_progress>>
    /\ UNCHANGED <<pfVars, coVars>>

\* the next chunk is taken up with the vectors of this one still unwritten
CvCollectDeferWrite ==
    /\ cv_pc = "par"
    /\ \A k \in DOMAIN cv_task : cv_task[k] = "done"
    /\ cv_query_vectors' = cv_query_vectors \o Collected(cv_slots)
    /\ cv_slots' = <<>>
    /\ cv_task' = <<>>
    /\ cv_i' = cv_i + 1
    /\ cv_pc' = "loop"
    /\ UNCHANGED <<cv_disk, cv_output, cv_queries, cv_word_embeddings, cv_show_progress,
                   cv_chunk, cv_file, cv_progress>>
    /\ UNCHANGED <<pfVars, coVars>>

\* lines 59-61: all tasks are done, collect() returns query_vectors
CvCollect ==
    /\ cv_pc = "par"
    /\ \A k \in DOMAIN cv_task : cv_task[k] = "done"
    /\ cv_query_vectors' = Collected(cv_slots)
    /\ cv_slots' = <<>>
    /\ cv_task' = <<>>
    /\ cv_pc' = "write"
    /\ UNCHANGED <<cv_disk, cv_output, cv_queries, cv_word_embeddings, cv_show_progress, cv_i,
                   cv_chunk, cv_file, cv_progress>>
    /\ UNCHANGED <<pfVars, coVars>>

\* line 63: file_io::write(&query_vectors, &mut file)
CvWrite ==
    /\ cv_pc = "write"
    /\ cv_file' = WriteVectors(cv_file, cv_query_vectors)
    /\ cv_pc' = "progress"
    /\ UNCHANGED <<cv_disk, cv_output, cv_queries, cv_word_embeddings, cv_show_progress, cv_i,
                   cv_chunk, cv_task, cv_slots, cv_query_vectors, cv_progress>>
    /\ UNCHANGED <<pfVars, coVars>>

\* lines 64-67: the progress bar advances when there is one; the iteration
\* ends, which drops chunk and query_vectors
CvProgress ==
    /\ cv_pc = "progress"
    /\ cv_progress' = IF cv_show_progress THEN cv_progress + Len(cv_query_vectors)
                      ELSE cv_progress
    /\ cv_query_vectors' = <<>>
    /\ cv_chunk' = <<>>
    /\ cv_i' = cv_i + 1
    /\ cv_pc' = "loop"
    /\ UNCHANGED <<cv_disk, cv_output, cv_queries, cv_word_embeddings, cv_show_progress,
                   cv_task, cv_slots, cv_file>>
    /\ UNCHANGED <<pfVars, coVars>>

\* line 68: the loop is over and the function returns
CvReturn ==
    /\ cv_pc = "loop"
    /\ cv_i = num_chunks
    /\ cv_pc' = "done"
    /\ UNCHANGED <<cv_disk, cv_output, cv_queries, cv_word_embeddings, cv_show_progress, cv_i,
                   cv_chunk, cv_task, cv_slots, cv_query_vectors, cv_file, cv_progress>>
    /\ UNCHANGED <<pfVars, coVars>>

CvNext ==
    \/ CvMapEmbeddings
    \/ CvMapEmbeddingsPanic
    \/ CvMapQueries
    \/ CvMapQueriesPanic
    \/ CvCreate
    \/ CvCreatePanic
    \/ CvChunk
    \/ \E k \in DOMAIN cv_task : CvTaskStart(k)
    \/ \E k \in DOMAIN cv_task : CvTaskFinish(k)
    \/ CvCollect
    \/ CvWrite
    \/ CvProgress
    \/ CvReturn

\* ------------------------------------------------------------------------
\* parse_queries_and_save_to_disk  (parsing.rs:16-33)  and
\* parse_queries_in_directory_or_file  (parsing.rs:71-130)
\* ------------------------------------------------------------------------

\* byte values of the characters of the part names
Code == ("." :> 46) @@ ("a" :> 97) @@ ("b" :> 98) @@ ("g" :> 103) @@ ("z" :> 122)

\* Ord of PathBuf for entries of one directory: the file names compared
\* byte by byte, a proper prefix before its extensions
PathLess(p, q) ==
    \E i \in 1..Len(q) :
        /\ \A j \in 1..(i - 1) : j <= Len(p) /\ p[j] = q[j]
        /\ (i > Len(p) \/ Code[p[i]] < Code[q[i]])

RECURSIVE Insert(_, _)
\* put p at its place in a sorted Vec
Insert(p, sorted) ==
    IF sorted = <<>> THEN <<p>>
    ELSE IF PathLess(p, Head(sorted)) THEN <<p>> \o sorted
    ELSE <<Head(sorted)>> \o Insert(p, Tail(sorted))

\* the parts are left in the order read_dir yields them
Unsorted(parts) == parts

RECURSIVE SortParts(_)
\* parts.sort()
SortParts(parts) ==
    IF parts = <<>> THEN <<>> ELSE Insert(Head(parts), SortParts(Tail(parts)))

\* the file names a directory can hold
PartNames == { <<"b">>, <<"a">>, <<"a", ".", "g", "z">> }

\* the orders in which read_dir can yield the entries of a directory of at
\* most n parts
Listings(n) ==
    {l \in UNION {[1..k -> PartNames] : k \in 0..n} :
        \A i, j \in DOMAIN l : i # j => l[i] # l[j]}

PlainFile(lines) == [kind |-> "plain", lines |-> lines]

GzipFile(lines) == [kind |-> "gzip", lines |-> lines]

\* a path that cannot be opened
NoAccess == [kind |-> "noaccess", lines |-> <<>>]

\* two query logs, and one whose second line is no JSON string
LinesA == <<JsonEncode(<<"a", " ", "b">>), JsonEncode(<<"a", ":", "b">>)>>

LinesB == <<JsonEncode(<<"b", " ", "x", " ", "a">>)>>

LinesBad == <<JsonEncode(<<"a">>), <<"a">>>>

\* a query log without any line
LinesNone == <<>>

\* what a part can hold
Contents ==
    {PlainFile(LinesA), PlainFile(LinesB), GzipFile(LinesA), PlainFile(LinesBad),
     PlainFile(LinesNone), NoAccess}

\* the vocabulary files: a good one, one with a malformed line, a missing one
WordFiles ==
    { PlainFile(<<JsonEncode(<<"a">>), JsonEncode(<<"b">>)>>),
      PlainFile(<<JsonEncode(<<"a">>), <<"b">>>>),
      NoAccess }

\* the words of the vocabulary files: one is the empty string, one has two
\* characters
VocabWords == { <<>>, <<"a">>, <<"b">>, <<"a", "b">> }

\* the lines a vocabulary file can hold: a word as a JSON string, or text
\* that is no JSON string
VocabLines == {JsonEncode(w) : w \in VocabWords} \cup { <<"b">> }

\* the vocabulary files of at most n lines, words may repeat; and a missing
\* one
VocabFiles(n) ==
    {PlainFile(l) : l \in UNION {[1..k -> VocabLines] : k \in 0..n}} \cup {NoAccess}

\* File::open succeeds on everything
OpenNeverFails(file) == FALSE

\* File::open(..) returns Err
OpenFails(file) == file.kind = "noaccess"

\* part.to_str().unwrap().ends_with(".gz")
EndsWithGz(name) ==
    Len(name) >= 3 /\ SubSeq(name, Len(name) - 2, Len(name)) = <<".", "g", "z">>

\* no part is decompressed, whatever its name
ReadAsPlainFails(name, file) == file.kind = "gzip"

\* the stream of the part cannot be read as lines of text: GzDecoder::new
\* rejects a file that is not gzip; compressed bytes read as plain text are
\* not UTF-8, so that lines() yields Err
StreamFails(name, file) ==
    IF EndsWithGz(name) THEN file.kind # "gzip" ELSE file.kind = "gzip"

\* the task of this part panics after File::open
ParsePanics(name, file) ==
    StreamFails(name, file) \/ \E i \in DOMAIN file.lines : Malformed(file.lines[i])

RECURSIVE ParseLinesFrom(_, _, _)
\* the loop of parse_file over the remaining lines of a stream
ParseLinesFrom(lines, word_ids, qv) ==
    IF lines = <<>> THEN qv
    ELSE ParseLinesFrom(Tail(lines), word_ids, LoopBody(qv, Head(lines), word_ids))

\* parse_file on a stream of valid lines
ParseFile(lines, word_ids) == ParseLinesFrom(lines, word_ids, <<>>)

RECURSIVE WordIdsKeepFirst(_, _, _)
\* the entry of a word is never replaced
WordIdsKeepFirst(lines, i, map) ==
    IF lines = <<>> THEN map
    ELSE WordIdsKeepFirst(Tail(lines), i + 1, map @@ (JsonDecode(Head(lines)) :> i))

RECURSIVE WordIdsFrom(_, _, _)
\* lines().enumerate().map(..).collect(): a later line replaces the entry
\* of an earlier one with the same word
WordIdsFrom(lines, i, map) ==
    IF lines = <<>> THEN map
    ELSE WordIdsFrom(Tail(lines), i + 1, (JsonDecode(Head(lines)) :> i) @@ map)

\* the lines are numbered from one
WordIdsFromOne(lines) == WordIdsFrom(lines, 1, <<>>)

\* the mapping built from the lines of the vocabulary file
WordIds(lines) == WordIdsFrom(lines, 0, <<>>)

\* QueryVec::extend_from_queryvec: the sequences of the part are appended
ExtendFromQueryvec(qv, part) == qv \o part

\* the call of parse_queries_and_save_to_disk: nothing has been read yet
CoInit ==
    /\ PfOff
    /\ CvOff
    /\ co_pc = "vocab"
    /\ co_word_file \in WordFiles
    /\ co_word_ids = <<>>
    /\ co_is_dir \in BOOLEAN
    /\ co_listing \in Listings(MaxParts)
    /\ ~co_is_dir => Len(co_listing) = 1
    /\ co_disk \in [{co_listing[k] : k \in DOMAIN co_listing} -> Contents]
    /\ co_show_progress \in BOOLEAN
    /\ co_parts = <<>>
    /\ co_task = <<>>
    /\ co_slots = <<>>
    /\ co_lock = {}
    /\ co_read = <<>>
    /\ co_progress_bar = 0
    /\ co_query_parts = <<>>
    /\ co_collect_bar = 0
    /\ co_queries = <<>>
    /\ co_returned = NoResult
    /\ co_output = Untouched

\* the call of parse_queries_and_save_to_disk on any of the vocabulary
\* files, up to the point where the vocabulary has been read
VoInit ==
    /\ PfOff
    /\ CvOff
    /\ co_pc = "vocab"
    /\ co_word_file \in VocabFiles(MaxWords)
    /\ co_word_ids = <<>>
    /\ co_is_dir = TRUE
    /\ co_listing = <<>>
    /\ co_disk = <<>>
    /\ co_show_progress \in BOOLEAN
    /\ co_parts = <<>>
    /\ co_task = <<>>
    /\ co_slots = <<>>
    /\ co_lock = {}
    /\ co_read = <<>>
    /\ co_progress_bar = 0
    /\ co_query_parts = <<>>
    /\ co_collect_bar = 0
    /\ co_queries = <<>>
    /\ co_returned = NoResult
    /\ co_output = Untouched

\* lines 17-25: the vocabulary is read
BoLoadVocab ==
    /\ co_pc = "vocab"
    /\ ~OpenFails(co_word_file)
    /\ \A i \in DOMAIN co_word_file.lines : ~Malformed(co_word_file.lines[i])
    /\ co_word_ids' = WordIds(co_word_file.lines)
    /\ co_pc' = "list"
    /\ UNCHANGED <<co_word_file, co_is_dir, co_listing, co_disk, co_show_progress,
                   co_parts, co_task, co_slots, co_lock, co_read, co_progress_bar,
                   co_query_parts, co_collect_bar, co_queries, co_returned, co_output>>
    /\ UNCHANGED <<pfVars, cvVars>>

\* lines 18-23: the vocabulary file cannot be opened or has a malformed line
BoVocabPanic ==
    /\ co_pc = "vocab"
    /\ \/ OpenFails(co_word_file)
       \/ \E i \in DOMAIN co_word_file.lines : Malformed(co_word_file.lines[i])
    /\ co_pc' = "aborted"
    /\ UNCHANGED <<co_word_file, co_word_ids, co_is_dir, co_listing, co_disk,
                   co_show_progress, co_parts, co_task, co_slots, co_lock, co_read,
                   co_progress_bar, co_query_parts, co_collect_bar, co_queries,
                   co_returned, co_output>>
    /\ UNCHANGED <<pfVars, cvVars>>

\* lines 72-90: the parts are listed and sorted, or the file is the only
\* part; the progress bar is made and the parts are handed to par_iter
CoListParts ==
    /\ co_pc = "list"
    /\ co_parts' = IF co_is_dir THEN SortParts(co_listing) ELSE co_listing
    /\ co_task' = [k \in DOMAIN co_listing |-> "idle"]
    /\ co_slots' = [k \in DOMAIN co_listing |-> NoResult]
    /\ co_read' = [k \in DOMAIN co_listing |-> 0]
    /\ co_progress_bar' = 0
    /\ co_pc' = "par"
    /\ UNCHANGED <<co_word_file, co_word_ids, co_is_dir, co_listing, co_disk,
                   co_show_progress, co_lock, co_query_parts, co_collect_bar,
                   co_queries, co_returned, co_output>>
    /\ UNCHANGED <<pfVars, cvVars>>

\* the task of part k moves to status st, nothing else changes
CoTaskStep(k, st) ==
    /\ co_task' = [co_task EXCEPT ![k] = st]
    /\ UNCHANGED <<co_pc, co_word_file, co_word_ids, co_is_dir, co_listing, co_disk,
                   co_show_progress, co_parts, co_query_parts, co_collect_bar,
                   co_queries, co_returned, co_output>>
    /\ UNCHANGED <<pfVars, cvVars>>

\* line 91: a worker takes part k and opens its file
CoTaskOpen(k) ==
    /\ co_pc = "par"
    /\ co_task[k] = "idle"
    /\ ~OpenFails(co_disk[co_parts[k]])
    /\ CoTaskStep(k, "open")
    /\ UNCHANGED <<co_slots, co_lock, co_read, co_progress_bar>>

\* line 91: File::open fails and expect panics
CoTaskOpenPanic(k) ==
    /\ co_pc = "par"
    /\ co_task[k] = "idle"
    /\ OpenFails(co_disk[co_parts[k]])
    /\ CoTaskStep(k, "panicked")
    /\ UNCHANGED <<co_slots, co_lock, co_read, co_progress_bar>>

\* lines 93-98: the part is decompressed when its name ends in .gz and
\* parse_file tokenizes it
CoTaskParse(k) ==
    /\ co_pc = "par"
    /\ co_task[k] = "open"
    /\ ~ParsePanics(co_parts[k], co_disk[co_parts[k]])
    /\ CoTaskStep(k, "parsed")
    /\ UNCHANGED <<co_slots, co_lock, co_read, co_progress_bar>>

\* lines 93-98: the stream or one of its lines cannot be read
CoTaskParsePanic(k) ==
    /\ co_pc = "par"
    /\ co_task[k] = "open"
    /\ ParsePanics(co_parts[k], co_disk[co_parts[k]])
    /\ CoTaskStep(k, "panicked")
    /\ UNCHANGED <<co_slots, co_lock, co_read, co_progress_bar>>

\* the Mutex is taken without waiting for its holder
CoTaskLockNoWait(k) ==
    /\ co_pc = "par"
    /\ co_task[k] = "parsed"
    /\ co_show_progress
    /\ co_lock' = co_lock \cup {k}
    /\ CoTaskStep(k, "locked")
    /\ UNCHANGED <<co_slots, co_read, co_progress_bar>>

\* line 101: progress_bar.lock() returns once the Mutex is free
CoTaskLock(k) ==
    /\ co_pc = "par"
    /\ co_task[k] = "parsed"
    /\ co_show_progress
    /\ co_lock = {}
    /\ co_lock' = co_lock \cup {k}
    /\ CoTaskStep(k, "locked")
    /\ UNCHANGED <<co_slots, co_read, co_progress_bar>>

\* line 101: inc() reads the count of the progress bar
CoTaskIncRead(k) ==
    /\ co_pc = "par"
    /\ co_task[k] = "locked"
    /\ co_read' = [co_read EXCEPT ![k] = co_progress_bar]
    /\ CoTaskStep(k, "adding")
    /\ UNCHANGED <<co_slots, co_lock, co_progress_bar>>

\* lines 101-104: inc() stores the count it read plus one, the guard is
\* dropped, the task returns its dataset
CoTaskInc(k) ==
    /\ co_pc = "par"
    /\ co_task[k] = "adding"
    /\ co_progress_bar' = co_read[k] + 1
    /\ co_read' = [co_read EXCEPT ![k] = 0]
    /\ co_lock' = co_lock \ {k}
    /\ co_slots' = PlaceResult(co_slots, k,
                     ParseFile(co_disk[co_parts[k]].lines, co_word_ids))
    /\ CoTaskStep(k, "done")

\* lines 100-104 without a progress bar: the task returns its dataset
CoTaskReturn(k) ==
    /\ co_pc = "par"
    /\ co_task[k] = "parsed"
    /\ ~co_show_progress
    /\ co_slots' = PlaceResult(co_slots, k,
                     ParseFile(co_disk[co_parts[k]].lines, co_word_ids))
    /\ CoTaskStep(k, "done")
    /\ UNCHANGED <<co_lock, co_read, co_progress_bar>>

\* the panic of a task is resumed in the caller once no task is running
\* (tasks that were not started need not run)
CoAbort ==
    /\ co_pc = "par"
    /\ \E k \in DOMAIN co_task : co_task[k] = "panicked"
    /\ \A k \in DOMAIN co_task : co_task[k] \in {"idle", "done", "panicked"}
    /\ co_pc' = "aborted"
    /\ UNCHANGED <<co_word_file, co_word_ids, co_is_dir, co_listing, co_disk,
                   co_show_progress, co_parts, co_task, co_slots, co_lock, co_read,
                   co_progress_bar, co_query_parts, co_collect_bar, co_queries,
                   co_returned, co_output>>
    /\ UNCHANGED <<pfVars, cvVars>>

\* the merge starts with the dataset of the first task that has returned
CoCollectFirstDone ==
    /\ co_pc = "par"
    /\ \E k \in DOMAIN co_task : co_task[k] = "done"
    /\ LET k == CHOOSE j \in DOMAIN co_task : co_task[j] = "done"
       IN  co_query_parts' = <<co_slots[k][1]>>
    /\ co_collect_bar' = 0
    /\ co_queries' = <<>>
    /\ co_pc' = "merge"
    /\ UNCHANGED <<co_word_file, co_word_ids, co_is_dir, co_listing, co_disk,
                   co_show_progress, co_parts, co_task, co_slots, co_lock, co_read,
                   co_progress_bar, co_returned, co_output>>
    /\ UNCHANGED <<pfVars, cvVars>>

\* lines 105-116: every task returned, collect() yields query_parts; the
\* second progress bar and the empty `queries` are made
CoCollect ==
    /\ co_pc = "par"
    /\ \A k \in DOMAIN co_task : co_task[k] = "done"
    /\ co_query_parts' = Collected(co_slots)
    /\ co_slots' = <<>>
    /\ co_task' = <<>>
    /\ co_read' = <<>>
    /\ co_collect_bar' = 0
    /\ co_queries' = <<>>
    /\ co_pc' = "merge"
    /\ UNCHANGED <<co_word_file, co_word_ids, co_is_dir, co_listing, co_disk,
                   co_show_progress, co_parts, co_lock, co_progress_bar,
                   co_returned, co_output>>
    /\ UNCHANGED <<pfVars, cvVars>>

\* with a progress bar the iteration only counts the part
CoMergeCountOnly ==
    /\ co_pc = "merge"
    /\ co_query_parts # <<>>
    /\ co_queries' = IF co_show_progress THEN co_queries
                      ELSE ExtendFromQueryvec(co_queries, Head(co_query_parts))
    /\ co_query_parts' = Tail(co_query_parts)
    /\ co_collect_bar' = IF co_show_progress THEN co_collect_bar + 1 ELSE co_collect_bar
    /\ UNCHANGED <<co_pc, co_word_file, co_word_ids, co_is_dir, co_listing, co_disk,
                   co_show_progress, co_parts, co_task, co_slots, co_lock, co_read,
                   co_progress_bar, co_returned, co_output>>
    /\ UNCHANGED <<pfVars, cvVars>>

\* lines 117-123: one iteration of `for query_part in query_parts`
CoMerge ==
    /\ co_pc = "merge"
    /\ co_query_parts # <<>>
    /\ co_queries' = ExtendFromQueryvec(co_queries, Head(co_query_parts))
    /\ co_query_parts' = Tail(co_query_parts)
    /\ co_collect_bar' = IF co_show_progress THEN co_collect_bar + 1 ELSE co_collect_bar
    /\ UNCHANGED <<co_pc, co_word_file, co_word_ids, co_is_dir, co_listing, co_disk,
                   co_show_progress, co_parts, co_task, co_slots, co_lock, co_read,
                   co_progress_bar, co_returned, co_output>>
    /\ UNCHANGED <<pfVars, cvVars>>

\* lines 125-129: the loop is over, `queries` is returned
CoReturn ==
    /\ co_pc = "merge"
    /\ co_query_parts = <<>>
    /\ co_returned' = SomeResult(co_queries)
    /\ co_pc' = "returned"
    /\ UNCHANGED <<co_word_file, co_word_ids, co_is_dir, co_listing, co_disk,
                   co_show_progress, co_parts, co_task, co_slots, co_lock, co_read,
                   co_progress_bar, co_query_parts, co_collect_bar, co_queries,
                   co_output>>
    /\ UNCHANGED <<pfVars, cvVars>>

\* lines 29-30: File::create makes or truncates the output file
BoCreate ==
    /\ co_pc = "returned"
    /\ co_output' = [state |-> "created", content |-> <<>>]
    /\ co_pc' = "write"
    /\ UNCHANGED <<co_word_file, co_word_ids, co_is_dir, co_listing, co_disk,
                   co_show_progress, co_parts, co_task, co_slots, co_lock, co_read,
                   co_progress_bar, co_query_parts, co_collect_bar, co_queries,
                   co_returned>>
    /\ UNCHANGED <<pfVars, cvVars>>

\* line 29: File::create fails and unwrap panics
BoCreatePanic ==
    /\ co_pc = "returned"
    /\ co_pc' = "aborted"
    /\ UNCHANGED <<co_word_file, co_word_ids, co_is_dir, co_listing, co_disk,
                   co_show_progress, co_parts, co_task, co_slots, co_lock, co_read,
                   co_progress_bar, co_query_parts, co_collect_bar, co_queries,
                   co_returned, co_output>>
    /\ UNCHANGED <<pfVars, cvVars>>

\* line 32: queries.write(&mut file) writes the dataset
BoWrite ==
    /\ co_pc = "write"
    /\ co_output' = [state |-> "written", content |-> co_returned[1]]
    /\ co_pc' = "done"
    /\ UNCHANGED <<co_word_file, co_word_ids, co_is_dir, co_listing, co_disk,
                   co_show_progress, co_parts, co_task, co_slots, co_lock, co_read,
                   co_progress_bar, co_query_parts, co_collect_bar, co_queries,
                   co_returned>>
    /\ UNCHANGED <<pfVars, cvVars>>

\* line 32: the write fails part way and expect panics
BoWritePanic ==
    /\ co_pc = "write"
    /\ \E n \in 0..Len(co_returned[1]) :
         co_output' = [state |-> "created", content |-> SubSeq(co_returned[1], 1, n)]
    /\ co_pc' = "aborted"
    /\ UNCHANGED <<co_word_file, co_word_ids, co_is_dir, co_listing, co_disk,
                   co_show_progress, co_parts, co_task, co_slots, co_lock, co_read,
                   co_progress_bar, co_query_parts, co_collect_bar, co_queries,
                   co_returned>>
    /\ UNCHANGED <<pfVars, cvVars>>

CoNext ==
    \/ BoLoadVocab
    \/ BoVocabPanic
    \/ CoListParts
    \/ \E k \in DOMAIN co_task : CoTaskOpen(k)
    \/ \E k \in DOMAIN co_task : CoTaskOpenPanic(k)
    \/ \E k \in DOMAIN co_task : CoTaskParse(k)
    \/ \E k \in DOMAIN co_task : CoTaskParsePanic(k)
    \/ \E k \in DOMAIN co_task : CoTaskLock(k)
    \/ \E k \in DOMAIN co_task : CoTaskIncRead(k)
    \/ \E k \in DOMAIN co_task : CoTaskInc(k)
    \/ \E k \in DOMAIN co_task : CoTaskReturn(k)
    \/ CoAbort
    \/ CoCollect
    \/ CoMerge
    \/ CoReturn
    \/ BoCreate
    \/ BoCreatePanic
    \/ BoWrite
    \/ BoWritePanic

\* ------------------------------------------------------------------------
\* Specifications
\* ------------------------------------------------------------------------

\* parse_file on one stream
SpecParse == PfInit /\ [][PfNext]_vars

\* compute_query_vectors_and_save_to_disk on one dataset
SpecVectorize == CvInit /\ [][CvNext]_vars

\* parse_queries_and_save_to_disk on one directory or file
SpecBuild == CoInit /\ [][CoNext]_vars

\* lines 17-25 of parse_queries_and_save_to_disk on one vocabulary file
VoNext == BoLoadVocab \/ BoVocabPanic

SpecVocab == VoInit /\ [][VoNext]_vars

\* one of the two entry points is called
Init == CoInit \/ CvInit

Next == CoNext \/ CvNext

Spec == Init /\ [][Next]_vars

\* ------------------------------------------------------------------------
\* Properties of parse_file
\* ------------------------------------------------------------------------

\* the last line taken from the stream was valid and has been tokenized
LastParsed == pf_lines > 0 /\ ~Malformed(pf_qs)

\* the sequence appended last
LastQuery == pf_queries[Len(pf_queries)]

\* positions of ':' in a text
Colons(s) == {i \in 1..Len(s) : s[i] = ":"}

\* the text after the last ':', the whole text when it has none
AfterLastColon(s) ==
    IF Colons(s) = {} THEN s ELSE SubSeq(s, Max(Colons(s)) + 1, Len(s))

\* positions where a whitespace-delimited term starts
TermStarts(s) ==
    {i \in 1..Len(s) : ~IsWhitespace(s[i]) /\ (i = 1 \/ IsWhitespace(s[i - 1]))}

\* the term that starts at position i
TermAt(s, i) ==
    SubSeq(s, i, Min({j \in i..Len(s) : j = Len(s) \/ IsWhitespace(s[j + 1])}))

\* the k-th smallest element of a set of numbers
Kth(S, k) == CHOOSE x \in S : Cardinality({y \in S : y <= x}) = k

\* the whitespace-delimited terms of a text, in order of appearance
Terms(s) ==
    LET starts == TermStarts(s)
    IN  [k \in 1..Cardinality(starts) |-> TermAt(s, Kth(starts, k))]

\* the ids of the terms that are in the vocabulary, in order of appearance
KnownIds(terms, word_ids) ==
    LET known == SelectSeq(terms, LAMBDA w : w \in DOMAIN word_ids)
    IN  [k \in 1..Len(known) |-> word_ids[known[k]]]

\* C8: every valid line is tokenized from the text after its last ':' (the
\* whole line when it has no ':'), and the example line "q1:region:red car"
\* with the vocabulary {red: 0, car: 1} yields [0, 1].
C8_TextAfterLastColon ==
    /\ LastParsed =>
         LastQuery = KnownIds(Terms(AfterLastColon(JsonDecode(pf_qs))), pf_word_ids)
    /\ (LastParsed /\ pf_qs = JsonEncode(ExampleText) /\ pf_word_ids = ExampleVocab) =>
         LastQuery = <<0, 1>>

\* C8 witness: the example line, which has two ':', has been tokenized
C8_Witness ==
    /\ LastParsed
    /\ pf_qs = JsonEncode(ExampleText)
    /\ pf_word_ids = ExampleVocab
    /\ Cardinality(Colons(JsonDecode(pf_qs))) = 2
    /\ LastQuery = <<0, 1>>

\* C9: the token-id sequence of a line is the sequence of the vocabulary ids
\* of exactly the whitespace-delimited terms that are in the vocabulary, in
\* their order of appearance; it holds no id of an absent term, no
\* placeholder, and is no longer than the number of terms.
C9_KnownTermsInOrder ==
    LastParsed =>
      LET terms == Terms(QueryText(JsonDecode(pf_qs)))
      IN  /\ LastQuery = KnownIds(terms, pf_word_ids)
          /\ Len(LastQuery) <= Len(terms)
          /\ Len(LastQuery) = Cardinality({k \in 1..Len(terms) : terms[k] \in DOMAIN pf_word_ids})
          /\ \A k \in 1..Len(LastQuery) :
               \E w \in DOMAIN pf_word_ids : pf_word_ids[w] = LastQuery[k]

\* C9 witness: a line with a known term after an unknown one
C9_Witness ==
    /\ LastParsed
    /\ LET terms == Terms(QueryText(JsonDecode(pf_qs)))
       IN  /\ Len(terms) = 2
           /\ terms[1] \notin DOMAIN pf_word_ids
           /\ terms[2] \in DOMAIN pf_word_ids
    /\ Len(LastQuery) = 1

\* C10: every valid line appends exactly one token-id sequence at the end of
\* the dataset, the earlier sequences staying in place, so that the dataset
\* is as long as the number of lines read; a line whose terms are all
\* unknown appends an empty sequence and the function still returns.
C10_OneSequencePerLine ==
    /\ [](/\ pf_pc # "panicked" => Len(pf_queries) = pf_lines
          /\ LastParsed =>
               LastQuery = KnownIds(Terms(QueryText(JsonDecode(pf_qs))), pf_word_ids))
    /\ [][(pf_lines' = pf_lines + 1 /\ pf_pc' # "panicked") =>
            /\ pf_pc' = "reading"
            /\ Len(pf_queries') = Len(pf_queries) + 1
            /\ SubSeq(pf_queries', 1, Len(pf_queries)) = pf_queries]_vars

\* C10 witness: two lines were read, the last has a term and all its terms
\* are unknown, and parse_file returned a dataset of length two
C10_Witness ==
    /\ pf_pc = "returned"
    /\ pf_lines = 2
    /\ Len(pf_queries) = 2
    /\ Terms(QueryText(JsonDecode(pf_qs))) # <<>>
    /\ LastQuery = <<>>

\* ------------------------------------------------------------------------
\* Properties of compute_query_vectors_and_save_to_disk
\* ------------------------------------------------------------------------

\* N, the number of queries of the loaded dataset
NumQueries == Len(cv_queries)

\* the embeddings of the first m queries, in index order
ExpectedVectors(m) == [k \in 1..m |-> SumVectors(cv_queries[k], cv_word_embeddings)]

\* the number of indices in the chunks before chunk i
IndicesBefore(i) ==
    IF i * ChunkSize(NumQueries) < NumQueries THEN i * ChunkSize(NumQueries) ELSE NumQueries

\* positions of the collect buffer that hold a vector
FilledSlots == {k \in DOMAIN cv_slots : cv_slots[k] # NoResult}

\* number of vectors in memory: computed and not yet dropped
Resident == Cardinality(FilledSlots) + Len(cv_query_vectors)

\* C2: the output stream always holds the embeddings of a prefix of the
\* dataset in index order, and once the function has returned it holds
\* exactly N vectors, the vector at position i being the embedding of
\* query i, whatever the order in which the tasks of a chunk finished.
C2_OutputInQueryOrder ==
    /\ Len(cv_file) <= NumQueries
    /\ cv_file = ExpectedVectors(Len(cv_file))
    /\ cv_pc = "done" => cv_file = ExpectedVectors(NumQueries)

\* C2 witness: a dataset with chunks of three queries has been written
C2_Witness ==
    /\ cv_pc = "done"
    /\ NumQueries > 2 * num_chunks
    /\ Len(cv_file) = NumQueries

\* C3: while the tasks of chunk i are started or finished, the output
\* stream holds all vectors of the chunks before i and none of chunk i or
\* later, no earlier vector is still waiting to be written, and the chunk
\* holds the indices that follow the ones written.
C3_ChunksSequential ==
    (cv_pc = "par" /\ \E k \in DOMAIN cv_task : cv_task[k] # "idle") =>
        /\ cv_query_vectors = <<>>
        /\ Len(cv_file) = IndicesBefore(cv_i)
        /\ cv_file = ExpectedVectors(IndicesBefore(cv_i))
        /\ \A k \in DOMAIN cv_chunk : cv_chunk[k] = Len(cv_file) + k - 1

\* C3 witness: a task of a later chunk of two or more queries is running
C3_Witness ==
    /\ cv_pc = "par"
    /\ cv_i >= 1
    /\ Len(cv_chunk) >= 2
    /\ \E k \in DOMAIN cv_task : cv_task[k] = "running"
    /\ Len(cv_file) = cv_i * ChunkSize(NumQueries)

\* C4: the vectors in memory all belong to the chunk of the current
\* iteration, so there are never more than chunk_size = ceil(N / 100) of
\* them, and never all N when N exceeds chunk_size.
C4_OneChunkResident ==
    LET first == cv_i * ChunkSize(NumQueries)
    IN  /\ Resident <= ChunkSize(NumQueries)
        /\ NumQueries > ChunkSize(NumQueries) => Resident < NumQueries
        /\ \A k \in FilledSlots :
             /\ k <= ChunkSize(NumQueries)
             /\ cv_slots[k] = SomeResult(SumVectors(cv_queries[first + k], cv_word_embeddings))
        /\ \A k \in DOMAIN cv_query_vectors :
             /\ k <= ChunkSize(NumQueries)
             /\ cv_query_vectors[k] = SumVectors(cv_queries[first + k], cv_word_embeddings)

\* C4 witness: a whole chunk of three vectors is resident, after the first
C4_Witness ==
    /\ cv_i >= 1
    /\ Resident = ChunkSize(NumQueries)
    /\ Resident = 3
    /\ NumQueries > ChunkSize(NumQueries)

\* C5 as stated: each of the 100 chunks is contiguous and has chunk_size
\* indices, except that the last of the 100 may have fewer.
C5_AllButLastEqual ==
    cv_pc = "par" =>
        /\ \A k \in DOMAIN cv_chunk : cv_chunk[k] = Len(cv_file) + k - 1
        /\ Len(cv_chunk) <= ChunkSize(NumQueries)
        /\ cv_i < num_chunks - 1 => Len(cv_chunk) = ChunkSize(NumQueries)

\* C5, amended: the loop runs num_chunks = 100 iterations whose chunks are
\* contiguous, follow each other and cover [0, N); a chunk has at most
\* chunk_size indices, and one with fewer ends at N, so that every chunk
\* after it is empty.
C5_EqualUntilExhausted ==
    /\ cv_pc = "par" =>
        /\ \A k \in DOMAIN cv_chunk : cv_chunk[k] = Len(cv_file) + k - 1
        /\ Len(cv_chunk) <= ChunkSize(NumQueries)
        /\ Len(cv_chunk) < ChunkSize(NumQueries) =>
             Len(cv_file) + Len(cv_chunk) = NumQueries
    /\ cv_pc \in {"loop", "par", "write"} => Len(cv_file) = IndicesBefore(cv_i)
    /\ cv_pc = "done" => (cv_i = num_chunks /\ Len(cv_file) = NumQueries)

\* C5 witness: a chunk that is not the last of the 100 is smaller than
\* chunk_size and not empty, and it ends the dataset
C5_Witness ==
    /\ cv_pc = "par"
    /\ cv_i < num_chunks - 1
    /\ Len(cv_chunk) > 0
    /\ Len(cv_chunk) < ChunkSize(NumQueries)
    /\ Len(cv_file) + Len(cv_chunk) = NumQueries

\* ------------------------------------------------------------------------
\* Properties of the multi-part collector
\* ------------------------------------------------------------------------

\* the paths of the directory (or the single file)
ListedPaths == {co_listing[k] : k \in DOMAIN co_listing}

\* the paths in ascending order: the k-th has k - 1 paths below it
AscendingPaths ==
    [k \in 1..Cardinality(ListedPaths) |->
        CHOOSE p \in ListedPaths :
            Cardinality({q \in ListedPaths : PathLess(q, p)}) = k - 1]

\* the tokenization of the part stored under a path
Tokenized(path) == ParseFile(co_disk[path].lines, co_word_ids)

RECURSIVE ConcatParts(_)
\* the tokenizations of a sequence of paths, one after the other
ConcatParts(paths) ==
    IF paths = <<>> THEN <<>> ELSE Tokenized(Head(paths)) \o ConcatParts(Tail(paths))

\* the part under this path cannot be opened or cannot be read to its end
Unreadable(path) ==
    \/ co_disk[path].kind = "noaccess"
    \/ co_disk[path].kind = (IF EndsWithGz(path) THEN "plain" ELSE "gzip")
    \/ \E i \in DOMAIN co_disk[path].lines : JsonDecode(co_disk[path].lines[i]) = Error

\* C1: for a directory, the dataset that parse_queries_in_directory_or_file
\* returns is the concatenation of the tokenizations of the parts in
\* ascending order of their paths, whatever the order of the listing and of
\* the tasks.
C1_MergedInSortedOrder ==
    (co_is_dir /\ co_returned # NoResult) =>
        co_returned = SomeResult(ConcatParts(AscendingPaths))

\* C1 witness: the listing yields two parts in descending order, their
\* tokenizations differ and are not empty, and the dataset is returned
C1_Witness ==
    /\ co_is_dir
    /\ co_returned # NoResult
    /\ Len(co_listing) = 2
    /\ PathLess(co_listing[2], co_listing[1])
    /\ Tokenized(co_listing[1]) # <<>>
    /\ Tokenized(co_listing[2]) # <<>>
    /\ Tokenized(co_listing[1]) # Tokenized(co_listing[2])

\* C6: when a part cannot be opened or read, no dataset is ever returned,
\* nothing is merged and the output path stays untouched; a dataset that is
\* returned holds the tokenization of every part, all of them readable.
C6_NoPartialSuccess ==
    /\ (\E p \in ListedPaths : Unreadable(p)) =>
          /\ co_returned = NoResult
          /\ co_queries = <<>>
          /\ co_output = Untouched
          /\ co_pc \in {"vocab", "list", "par", "aborted"}
    /\ co_returned # NoResult =>
          /\ \A p \in ListedPaths : ~Unreadable(p)
          /\ Len(co_parts) = Cardinality(ListedPaths)
          /\ co_returned = SomeResult(ConcatParts(co_parts))

\* C6 witness: the run aborted on one part after the task of another part
\* had returned its dataset
C6_Witness ==
    /\ co_pc = "aborted"
    /\ \E k \in DOMAIN co_task : co_task[k] = "panicked"
    /\ \E k \in DOMAIN co_task : co_task[k] = "done" /\ co_slots[k] # NoResult
    /\ co_returned = NoResult

\* a task of the collector is between its start and its end
CoWorkerRunning == \E k \in DOMAIN co_task : co_task[k] \in {"open", "parsed", "locked", "adding"}

\* a task of the vectorizer is between its start and its end
CvWorkerRunning == \E k \in DOMAIN cv_task : cv_task[k] = "running"

\* C7: an output file changes only in a step taken while no worker task is
\* running; while the tasks run, the vocabulary, the inputs and all state
\* of the calling thread stay as they are; a task changes only its own
\* result slot and the progress counter, the latter by one and only as the
\* single holder of the lock.
C7_SingleWriterReadOnlyWorkers ==
    /\ [](/\ Cardinality(co_lock) <= 1
          /\ \A k \in co_lock : co_task[k] \in {"locked", "adding"})
    /\ [][/\ co_output' # co_output => (~CoWorkerRunning /\ co_pc \in {"returned", "write"})
          /\ cv_file' # cv_file => (~CvWorkerRunning /\ cv_pc = "write")
          /\ (co_pc = "par" /\ co_pc' = "par") =>
                /\ co_word_ids' = co_word_ids
                /\ co_word_file' = co_word_file
                /\ co_disk' = co_disk
                /\ co_parts' = co_parts
                /\ co_queries' = co_queries
                /\ co_collect_bar' = co_collect_bar
                /\ \A k \in DOMAIN co_slots :
                     co_slots'[k] # co_slots[k] =>
                        (co_task[k] \in {"parsed", "adding"} /\ co_task'[k] = "done")
                /\ co_progress_bar' # co_progress_bar =>
                     /\ co_progress_bar' = co_progress_bar + 1
                     /\ \E k \in co_lock : co_lock = {k} /\ co_lock' = {}
          /\ (cv_pc = "par" /\ cv_pc' = "par") =>
                /\ cv_queries' = cv_queries
                /\ cv_word_embeddings' = cv_word_embeddings
                /\ cv_progress' = cv_progress
                /\ cv_query_vectors' = cv_query_vectors
                /\ \A k \in DOMAIN cv_slots :
                     cv_slots'[k] # cv_slots[k] =>
                        (cv_task[k] = "running" /\ cv_task'[k] = "done")]_vars

\* C7 witness: a task holds the lock of the progress bar while another
\* task has finished parsing and waits for it
C7_Witness ==
    /\ co_pc = "par"
    /\ \E k \in co_lock : \E j \in DOMAIN co_task : j # k /\ co_task[j] = "parsed"
    /\ co_progress_bar = 0

\* the tasks whose part has been tokenized and returned
TasksDone == {k \in DOMAIN co_task : co_task[k] = "done"}

\* C13: with progress reporting, the tokenization counter never decreases,
\* changes only by one and only when a task ends with its part tokenized,
\* counts the tasks that have ended so while the tasks run, and is the
\* number of parts once the parallel phase is over, whatever the order of
\* the workers' steps; the collection counter changes only by one with the
\* appending of one part, and counts the parts appended.
C13_ProgressCountsParts ==
    /\ [](co_show_progress =>
            /\ co_pc = "par" => co_progress_bar = Cardinality(TasksDone)
            /\ co_pc = "merge" =>
                  /\ co_progress_bar = Len(co_parts)
                  /\ co_collect_bar = Len(co_parts) - Len(co_query_parts)
            /\ co_returned # NoResult =>
                  /\ co_progress_bar = Len(co_parts)
                  /\ co_collect_bar = Len(co_parts))
    /\ [][co_show_progress =>
            /\ co_progress_bar' >= co_progress_bar
            /\ co_progress_bar' # co_progress_bar =>
                  /\ co_progress_bar' = co_progress_bar + 1
                  /\ \E k \in DOMAIN co_task :
                        /\ co_task[k] # "done"
                        /\ co_task' = [co_task EXCEPT ![k] = "done"]
            /\ co_task' # co_task /\ co_pc' = "par" /\ TasksDone' # TasksDone =>
                  co_progress_bar' = co_progress_bar + 1
            /\ co_collect_bar' >= co_collect_bar
            /\ co_collect_bar' # co_collect_bar =>
                  /\ co_collect_bar' = co_collect_bar + 1
                  /\ co_query_parts # <<>>
                  /\ co_query_parts' = Tail(co_query_parts)
            /\ (co_pc = "merge" /\ co_query_parts' # co_query_parts) =>
                  co_collect_bar' = co_collect_bar + 1]_vars

\* C13 witness: two parts were tokenized by tasks that both waited for or
\* held the lock, then merged, and both counters stand at two
C13_Witness ==
    /\ co_show_progress
    /\ co_returned # NoResult
    /\ Len(co_parts) = 2
    /\ co_progress_bar = 2
    /\ co_collect_bar = 2

\* the task of part j has a .gz name and gzip content, the task of part k
\* has a plain name and holds the same text uncompressed
SameTextGzipAndPlain(j, k) ==
    /\ EndsWithGz(co_parts[j])
    /\ co_disk[co_parts[j]].kind = "gzip"
    /\ ~EndsWithGz(co_parts[k])
    /\ co_disk[co_parts[k]].kind = "plain"
    /\ co_disk[co_parts[j]].lines = co_disk[co_parts[k]].lines

\* C14: a part with a .gz name and gzip content is tokenized to the same
\* dataset as a part with a plain name that holds the same text: both
\* tasks get through or both panic on the same line, and their results
\* are parse_file of that text.
C14_GzipSameAsPlain ==
    \A j, k \in DOMAIN co_task :
        SameTextGzipAndPlain(j, k) =>
            LET text == co_disk[co_parts[k]].lines
                bad == \E i \in DOMAIN text : JsonDecode(text[i]) = Error
            IN  /\ co_task[j] = "panicked" => bad
                /\ co_task[k] = "panicked" => bad
                /\ co_task[j] \in {"parsed", "locked", "adding", "done"} => ~bad
                /\ co_task[k] \in {"parsed", "locked", "adding", "done"} => ~bad
                /\ co_task[j] = "done" =>
                      co_slots[j] = SomeResult(ParseFile(text, co_word_ids))
                /\ co_task[k] = "done" =>
                      co_slots[k] = SomeResult(ParseFile(text, co_word_ids))
                /\ (co_task[j] = "done" /\ co_task[k] = "done") =>
                      co_slots[j] = co_slots[k]

\* C14 witness: the tasks of a.gz (gzip) and of a (plain), both holding
\* the two example lines, have returned the same non-empty dataset
C14_Witness ==
    /\ co_pc = "par"
    /\ \E j, k \in DOMAIN co_task :
          /\ SameTextGzipAndPlain(j, k)
          /\ co_task[j] = "done"
          /\ co_task[k] = "done"
          /\ co_slots[j] = co_slots[k]
          /\ Len(co_slots[j][1]) = 2
          /\ co_slots[j][1][1] # <<>>

\* C17: while the tasks run nothing is merged; the merge is entered only
\* from the parallel phase, in a step at which every task has returned its
\* dataset, with all the datasets at hand and nothing merged yet; the
\* merged dataset changes only in the merge, one part per step, in the
\* order of query_parts, while no worker task exists.
C17_MergeAfterBarrier ==
    /\ [](co_pc = "par" => (co_queries = <<>> /\ co_query_parts = <<>>))
    /\ [](co_pc = "merge" => (co_task = <<>> /\ co_lock = {}))
    /\ [][/\ (co_pc # "merge" /\ co_pc' = "merge") =>
                /\ co_pc = "par"
                /\ \A k \in DOMAIN co_task :
                      co_task[k] = "done" /\ co_slots[k] # NoResult
                /\ Len(co_query_parts') = Len(co_parts)
                /\ co_queries' = <<>>
          /\ (co_queries' # co_queries \/ (co_pc = "merge" /\ co_query_parts' # co_query_parts)) =>
                /\ co_pc = "merge"
                /\ co_pc' = "merge"
                /\ ~CoWorkerRunning
                /\ co_query_parts # <<>>
                /\ co_query_parts' = Tail(co_query_parts)
                /\ Len(co_queries') = Len(co_queries) + Len(Head(co_query_parts))]_vars

\* C17 witness: the first of two parts has been appended, the second is
\* still waiting in query_parts
C17_Witness ==
    /\ co_pc = "merge"
    /\ Len(co_parts) = 2
    /\ Len(co_query_parts) = 1
    /\ co_queries # <<>>
    /\ co_query_parts[1] # <<>>

\* ------------------------------------------------------------------------
\* Properties of the vocabulary
\* ------------------------------------------------------------------------

\* the word on line i (from 1) of the vocabulary file
VocabWord(i) == JsonDecode(co_word_file.lines[i])

\* the file can be opened and every line is a JSON string
VocabValid ==
    /\ co_word_file.kind = "plain"
    /\ \A i \in DOMAIN co_word_file.lines : VocabWord(i) # Error

\* the mapping has been built
VocabLoaded == co_pc = "list"

NoDuplicateWords ==
    \A i, j \in DOMAIN co_word_file.lines : i # j => VocabWord(i) # VocabWord(j)

\* C11: a valid vocabulary file of k lines without duplicate words yields
\* a mapping of exactly k entries in which the word on line i (0-based)
\* has id i, so that the ids are exactly 0..k-1
C11_IdsAreLineNumbers ==
    VocabLoaded /\ NoDuplicateWords =>
        /\ VocabValid
        /\ Cardinality(DOMAIN co_word_ids) = Len(co_word_file.lines)
        /\ \A i \in DOMAIN co_word_file.lines : co_word_ids[VocabWord(i)] = i - 1
        /\ {co_word_ids[w] : w \in DOMAIN co_word_ids} = 0..(Len(co_word_file.lines) - 1)

C11_Witness ==
    /\ VocabLoaded
    /\ NoDuplicateWords
    /\ Len(co_word_file.lines) = 3
    /\ VocabWord(1) = <<"a", "b">>
    /\ VocabWord(3) = <<>>
    /\ co_word_ids[<<"a", "b">>] = 0
    /\ co_word_ids[<<>>] = 2

\* the lines (from 1) that hold word w
LinesOf(w) == {i \in DOMAIN co_word_file.lines : VocabWord(i) = w}

\* C15: a word on several lines of the vocabulary file has one entry, its
\* id is the 0-based index of the last of these lines; the mapping then
\* has fewer entries than the file has lines, and the run does not abort
C15_LastWriteWins ==
    /\ VocabLoaded =>
          /\ DOMAIN co_word_ids = {VocabWord(i) : i \in DOMAIN co_word_file.lines}
          /\ \A w \in DOMAIN co_word_ids : co_word_ids[w] = Max(LinesOf(w)) - 1
          /\ ~NoDuplicateWords =>
                Cardinality(DOMAIN co_word_ids) < Len(co_word_file.lines)
    /\ co_pc = "aborted" => ~VocabValid

C15_Witness ==
    /\ VocabLoaded
    /\ Len(co_word_file.lines) = 3
    /\ VocabWord(1) = <<"a">>
    /\ VocabWord(2) = <<"b">>
    /\ VocabWord(3) = <<"a">>
    /\ co_word_ids[<<"a">>] = 2
    /\ Cardinality(DOMAIN co_word_ids) = 2

\* ------------------------------------------------------------------------
\* Empty input
\* ------------------------------------------------------------------------

\* the collector can go on: the calling thread or a task has a step to
\* take (a task that holds its dataset and, with a progress bar, the count
\* it read, has no further condition to meet)
CoCanStep ==
    \/ ENABLED (CoListParts \/ CoAbort \/ CoCollect \/ CoMerge \/ CoReturn
                  \/ \E k \in DOMAIN co_task :
                         \/ CoTaskOpen(k) \/ CoTaskOpenPanic(k)
                         \/ CoTaskParse(k) \/ CoTaskParsePanic(k)
                         \/ CoTaskLock(k) \/ CoTaskIncRead(k))
    \/ /\ co_pc = "par"
       /\ \E k \in DOMAIN co_task :
             \/ co_task[k] = "adding"
             \/ co_task[k] = "parsed" /\ ~co_show_progress

\* every part is a readable plain file without any line
EmptyLogs ==
    \A p \in ListedPaths : co_disk[p] = PlainFile(LinesNone) /\ ~EndsWithGz(p)

\* the vectorizer has loaded a dataset without queries
EmptyDataset ==
    /\ cv_pc \in {"create", "loop", "par", "write", "progress", "done", "aborted"}
    /\ NumQueries = 0

\* C12: parts without query lines are tokenized without a panic, each to a
\* dataset of length 0, the collector goes on until it returns, and what it
\* returns has length 0; the vectorizer on a dataset of 0 queries goes
\* through its loop over empty chunks without a panic until it returns,
\* and has written no vector.
C12_EmptyInputIsValid ==
    /\ EmptyLogs =>
          /\ \A k \in DOMAIN co_task : co_task[k] # "panicked"
          /\ \A k \in DOMAIN co_slots :
                co_slots[k] # NoResult => co_slots[k] = SomeResult(<<>>)
          /\ co_returned # NoResult => co_returned = SomeResult(<<>>)
          /\ co_pc = "aborted" => (~VocabValid \/ co_returned # NoResult)
          /\ co_pc \in {"list", "par", "merge"} => CoCanStep
    /\ EmptyDataset =>
          /\ cv_file = <<>>
          /\ cv_chunk = <<>>
          /\ cv_progress = 0
          /\ cv_i <= num_chunks
          /\ cv_pc = "aborted" => cv_output = "untouched"
          /\ cv_pc = "done" => cv_i = num_chunks
          /\ cv_pc \in {"loop", "par", "write", "progress"} =>
                ENABLED (CvChunk \/ CvCollect \/ CvWrite \/ CvProgress \/ CvReturn)

\* C12 witness: the vectorizer went through its 100 iterations on a
\* dataset without queries and returned
C12_Witness ==
    /\ cv_pc = "done"
    /\ cv_disk.queries = Mappable(<<>>)
    /\ cv_i = num_chunks
    /\ cv_output = "created"
    /\ cv_file = <<>>

\* ------------------------------------------------------------------------
\* Independence of show_progress
\* ------------------------------------------------------------------------

\* the paths in the order in which the inputs fix them
InputPaths == IF co_is_dir THEN AscendingPaths ELSE co_listing

RECURSIVE InputDataset(_)
\* the dataset that the vocabulary file and the parts under these paths
\* determine
InputDataset(paths) ==
    IF paths = <<>> THEN <<>>
    ELSE ParseFile(co_disk[Head(paths)].lines, WordIds(co_word_file.lines))
           \o InputDataset(Tail(paths))

\* the vectors that the two input files of the vectorizer determine
InputVectors ==
    [k \in 1..Len(cv_disk.queries.content) |->
        SumVectors(cv_disk.queries.content[k], cv_disk.word_embeddings.content)]

\* C16: what parse_queries_in_directory_or_file returns and what the
\* vectorizer has written at its end are functions of the input files
\* alone, and so is whether the collector returns at all: two runs on the
\* same inputs, one with and one without show_progress, that both end have
\* the same result, and the progress bars never keep a run from going on.
C16_ResultIndependentOfProgress ==
    /\ co_returned # NoResult => co_returned = SomeResult(InputDataset(InputPaths))
    /\ co_pc = "done" => co_output.content = InputDataset(InputPaths)
    /\ (co_pc = "aborted" /\ co_returned = NoResult) =>
          (~VocabValid \/ \E p \in ListedPaths : Unreadable(p))
    /\ co_pc \in {"list", "par", "merge"} => CoCanStep
    /\ cv_pc = "done" => cv_file = InputVectors
    /\ cv_pc \in {"loop", "par", "write", "progress"} =>
          /\ Len(cv_file) <= Len(InputVectors)
          /\ cv_file = SubSeq(InputVectors, 1, Len(cv_file))

\* C16 witness: a run with progress bars has returned a dataset of
\* several sequences merged from two parts
C16_Witness ==
    /\ co_show_progress
    /\ co_pc = "done"
    /\ Len(co_parts) = 2
    /\ co_collect_bar = 2
    /\ Len(co_output.content) >= 3
    /\ co_output.content = InputDataset(InputPaths)

\* ------------------------------------------------------------------------
\* Creation of the output files
\* ------------------------------------------------------------------------

\* C18: the output file of parse_queries_and_save_to_disk is touched first
\* by the step that follows the return of the collector, when the
\* vocabulary is loaded and every part is tokenized and merged, so that a
\* run that aborts before the collector returned leaves it untouched; the
\* output file of the vectorizer is created only with both input files
\* mapped and the dataset loaded, and no chunk is built before it exists.
C18_OutputCreatedLate ==
    /\ [](co_output # Untouched =>
            /\ co_pc \in {"write", "done", "aborted"}
            /\ co_word_ids = WordIds(co_word_file.lines)
            /\ co_query_parts = <<>>
            /\ Len(co_parts) = Cardinality(ListedPaths)
            /\ co_returned = SomeResult(ConcatParts(co_parts)))
    /\ []((co_pc = "aborted" /\ co_returned = NoResult) => co_output = Untouched)
    /\ [](cv_output = "created" =>
            /\ cv_pc \in {"loop", "par", "write", "progress", "done"}
            /\ cv_disk.word_embeddings.kind = "file"
            /\ cv_disk.queries.kind = "file"
            /\ cv_word_embeddings = cv_disk.word_embeddings.content
            /\ cv_queries = cv_disk.queries.content)
    /\ [](cv_output = "untouched" =>
            /\ cv_pc \in {"off", "embeddings", "queries", "create", "aborted"}
            /\ cv_i = 0
            /\ cv_chunk = <<>>
            /\ cv_task = <<>>
            /\ cv_file = <<>>)
    /\ [][/\ (co_output = Untouched /\ co_output' # Untouched) =>
                (co_pc = "returned" /\ co_output' = [state |-> "created", content |-> <<>>])
          /\ (cv_output = "untouched" /\ cv_output' # "untouched") =>
                (cv_pc = "create" /\ cv_pc' = "loop" /\ cv_i' = 0)]_vars

\* C18 witness: the output file has just been created, after two parts
\* were tokenized and merged
C18_Witness ==
    /\ co_pc = "write"
    /\ co_output = [state |-> "created", content |-> <<>>]
    /\ Len(co_parts) = 2
    /\ co_returned # NoResult
    /\ co_returned # SomeResult(<<>>)

====
